---- MODULE Spec2Model ----
(***************************************************************************)
(* Model of dsnet's report types (reporttypes.go): GenerateReport, which   *)
(* joins the configured peers with the wireguard device snapshot, and the  *)
(* report store, MustSave / MustLoadDsnetReport.                           *)
(*                                                                         *)
(* Time is counted in whole minutes since the zero time.Time (year 1).     *)
(***************************************************************************)
EXTENDS Integers, Sequences, FiniteSets, TLC

VARIABLES
    conf,       \* *DsnetConfig handed to GenerateReport
    dev,        \* *wgtypes.Device handed to GenerateReport
    oldReport,  \* *DsnetReport handed to GenerateReport (NoReport = nil)
    now,        \* the wall clock read by time.Since
    report,     \* the DsnetReport last returned by GenerateReport, or NoReport
    genTime,    \* the clock at that call, NoTime before the first call
    fs,         \* the file system: path -> file
    proc,       \* the dsnet process: "idle", "saving", "fatal"
    save,       \* the MustSave in progress: path and bytes still to write
    saved,      \* path -> the report of the last completed MustSave there
    loaded,     \* outcome of the last MustLoadDsnetReport
    observed    \* what the concurrent reader last read

genVars   == <<conf, dev, oldReport, now, report, genTime>>
storeVars == <<fs, proc, save, saved, loaded, observed>>
vars      == <<conf, dev, oldReport, now, report, genTime,
               fs, proc, save, saved, loaded, observed>>

(***************************************************************************)
(* Bounds of the model.                                                    *)
(***************************************************************************)
MaxPeers    == 2            \* configured peers in a configuration
MaxDevPeers == 2            \* peers in a device snapshot
MaxTicks    == 1            \* minutes the clock may advance
Now0        == 1065000000   \* the clock at the start (minutes since year 1)

(***************************************************************************)
(* Status and the thresholds.                                              *)
(***************************************************************************)
StatusUnknown == 0
StatusOffline == 1
StatusOnline  == 2
StatusDormant == 3

\* Status.String
String(s) ==
    CASE s = StatusUnknown -> "unknown"
      [] s = StatusOffline -> "offline"
      [] s = StatusOnline  -> "online"
      [] s = StatusDormant -> "dormant"
      [] OTHER             -> ""

TIMEOUT == 3                \* 3 minutes
EXPIRY  == 40320            \* 28 days

\* time.Duration saturates: the largest Duration (2^63-1 ns) in minutes
MaxDuration == 153722867

ZeroTime == 0
NoTime   == -1

IsZero(t) == t = ZeroTime

\* time.Since(t) evaluated when the clock reads n; Time.Sub saturates
Since(n, t) ==
    IF n - t > MaxDuration THEN MaxDuration
    ELSE IF n - t < -MaxDuration THEN -MaxDuration
    ELSE n - t

(***************************************************************************)
(* net.IP: a byte slice that is nil, empty, 4 bytes or 16 bytes long.      *)
(***************************************************************************)
NilIP   == [form |-> "nil",   addr |-> ""]
EmptyIP == [form |-> "empty", addr |-> ""]
IPv4(a) == [form |-> "v4",  addr |-> a]
IPv16(a) == [form |-> "v16", addr |-> a]

NoEndpoint  == [nil |-> TRUE,  IP |-> NilIP, Port |-> 0]
Endpoint(a) == [nil |-> FALSE, IP |-> IPv4(a), Port |-> 51820]

NoReport == [nil |-> TRUE]

(***************************************************************************)
(* Inputs: configurations and device snapshots.                            *)
(***************************************************************************)
ConfKeys == {"K1", "K2"}
DevKeys  == {"K1", "K2", "KX"}      \* KX is never configured

Rank(k) == CASE k = "K1" -> 1 [] k = "K2" -> 2 [] OTHER -> 3

PeerConfig(k) ==
    [ PublicKey   |-> k,
      Hostname    |-> IF k = "K1" THEN "alpha" ELSE "beta",
      Owner       |-> IF k = "K1" THEN "ann" ELSE "bob",
      Description |-> IF k = "K1" THEN "laptop" ELSE "router",
      Added       |-> Now0 - (100000 * Rank(k)),
      IP          |-> IPv16(IF k = "K1" THEN "10.0.0.2" ELSE "10.0.0.3"),
      Networks    |-> IF k = "K1" THEN <<>> ELSE <<"192.168.7.0/24">> ]

InjectiveSeqs(S, n) ==
    UNION { { s \in [1..m -> S] : \A i, j \in 1..m : i # j => s[i] # s[j] }
            : m \in 0..n }

DsnetConfigOf(peers) ==
    [ ExternalIP    |-> IPv16("198.51.100.1"),
      InterfaceName |-> "dsnet",
      ListenPort    |-> 51820,
      Domain        |-> "dsnet",
      IP            |-> IPv16("10.0.0.1"),
      Network       |-> "10.0.0.0/22",
      DNS           |-> NilIP,
      Peers         |-> peers ]

Configs ==
    { DsnetConfigOf([i \in DOMAIN ks |-> PeerConfig(ks[i])])
      : ks \in InjectiveSeqs(ConfKeys, MaxPeers) }

\* handshake times around the two thresholds, seen from Now0
HandshakeTimes ==
    { ZeroTime, Now0 + 1, Now0, Now0 - (TIMEOUT - 1), Now0 - TIMEOUT,
      Now0 - EXPIRY, Now0 - (EXPIRY + 1) }

Telemetry ==
    { [Endpoint |-> NoEndpoint, ReceiveBytes |-> 0, TransmitBytes |-> 0],
      [Endpoint |-> NoEndpoint, ReceiveBytes |-> 2048, TransmitBytes |-> 1500],
      [Endpoint |-> Endpoint("203.0.113.9"), ReceiveBytes |-> 2048,
       TransmitBytes |-> 1500] }

WgPeers ==
    { [ PublicKey         |-> k,
        Endpoint          |-> t.Endpoint,
        LastHandshakeTime |-> h,
        ReceiveBytes      |-> t.ReceiveBytes,
        TransmitBytes     |-> t.TransmitBytes ]
      : k \in DevKeys, h \in HandshakeTimes, t \in Telemetry }

\* a device lists each public key at most once
Devices ==
    { [Peers |-> ps] : ps \in
        UNION { { s \in [1..m -> WgPeers] :
                    \A i, j \in 1..m :
                        i < j => Rank(s[i].PublicKey) < Rank(s[j].PublicKey) }
                : m \in 0..MaxDevPeers } }

\* the zero value of wgtypes.Peer, what a failed map lookup yields
ZeroPeer ==
    [ PublicKey         |-> "",
      Endpoint          |-> NoEndpoint,
      LastHandshakeTime |-> ZeroTime,
      ReceiveBytes      |-> 0,
      TransmitBytes     |-> 0 ]

(***************************************************************************)
(* BytesToSI: binary magnitude steps, one decimal place.                   *)
(***************************************************************************)
UnitName(e) ==
    CASE e = 1 -> " KiB" [] e = 2 -> " MiB" [] OTHER -> " GiB"

RECURSIVE SIStep(_, _, _)
SIStep(b, div, e) ==
    IF b \div div >= 1024 /\ e < 3
    THEN SIStep(b, div * 1024, e + 1)
    ELSE LET tenths == ((b * 10) + (div \div 2)) \div div
         IN  ToString(tenths \div 10) \o "." \o ToString(tenths % 10)
                \o UnitName(e)

BytesToSI(b) ==
    IF b < 1024 THEN ToString(b) \o " B" ELSE SIStep(b, 1024, 1)

(***************************************************************************)
(* GenerateReport                                                          *)
(***************************************************************************)
\* for _, peer := range dev.Peers { wgPeerIndex[peer.PublicKey] = peer }
RECURSIVE IndexPeers(_, _, _)
IndexPeers(peers, i, idx) ==
    IF i > Len(peers) THEN idx
    ELSE IndexPeers(peers, i + 1,
            [k \in DOMAIN idx \cup {peers[i].PublicKey} |->
                IF k = peers[i].PublicKey THEN peers[i] ELSE idx[k]])

\* make(map[wgtypes.Key]wgtypes.Peer), make(map[string]PeerReport)
EmptyMap == [k \in {} |-> k]

wgPeerIndex(d) == IndexPeers(d.Peers, 1, EmptyMap)

\* for _, report := range oldReport.Peers { oldPeerReportIndex[report.Hostname] = report }
RECURSIVE IndexReports(_, _, _)
IndexReports(reports, i, idx) ==
    IF i > Len(reports) THEN idx
    ELSE IndexReports(reports, i + 1,
            [h \in DOMAIN idx \cup {reports[i].Hostname} |->
                IF h = reports[i].Hostname THEN reports[i] ELSE idx[h]])

oldPeerReportIndex(old) ==
    IF old.nil THEN EmptyMap ELSE IndexReports(old.Peers, 1, EmptyMap)

\* Classify with peersOnline += 1 moved into the final else branch
ClassifyCountsOffline(known, wgPeer, n) ==
    IF ~known
    THEN [status |-> StatusUnknown, online |-> 0]
    ELSE IF Since(n, wgPeer.LastHandshakeTime) < TIMEOUT
    THEN [status |-> StatusOnline, online |-> 0]
    ELSE IF ~IsZero(wgPeer.LastHandshakeTime)
            /\ Since(n, wgPeer.LastHandshakeTime) > EXPIRY
    THEN [status |-> StatusDormant, online |-> 0]
    ELSE [status |-> StatusOffline, online |-> 1]

\* Classify with inclusive comparisons against the two windows
ClassifyInclusive(known, wgPeer, n) ==
    IF ~known
    THEN [status |-> StatusUnknown, online |-> 0]
    ELSE IF Since(n, wgPeer.LastHandshakeTime) <= TIMEOUT
    THEN [status |-> StatusOnline, online |-> 1]
    ELSE IF ~IsZero(wgPeer.LastHandshakeTime)
            /\ Since(n, wgPeer.LastHandshakeTime) >= EXPIRY
    THEN [status |-> StatusDormant, online |-> 0]
    ELSE [status |-> StatusOffline, online |-> 0]

\* Classify without the IsZero test
ClassifyNoZeroTest(known, wgPeer, n) ==
    IF ~known
    THEN [status |-> StatusUnknown, online |-> 0]
    ELSE IF Since(n, wgPeer.LastHandshakeTime) < TIMEOUT
    THEN [status |-> StatusOnline, online |-> 1]
    ELSE IF Since(n, wgPeer.LastHandshakeTime) > EXPIRY
    THEN [status |-> StatusDormant, online |-> 0]
    ELSE [status |-> StatusOffline, online |-> 0]

\* the if / else-if chain deciding status, and its effect on peersOnline
Classify(known, wgPeer, n) ==
    IF ~known
    THEN [status |-> StatusUnknown, online |-> 0]
    ELSE IF Since(n, wgPeer.LastHandshakeTime) < TIMEOUT
    THEN [status |-> StatusOnline, online |-> 1]
    ELSE IF ~IsZero(wgPeer.LastHandshakeTime)
            /\ Since(n, wgPeer.LastHandshakeTime) > EXPIRY
    THEN [status |-> StatusDormant, online |-> 0]
    ELSE [status |-> StatusOffline, online |-> 0]

externalIP(wgPeer) ==
    IF ~wgPeer.Endpoint.nil THEN wgPeer.Endpoint.IP ELSE EmptyIP

\* PeerReportOf with the two byte counters exchanged
PeerReportOfSwapped(peer, wgPeer, status, oldIdx) ==
    [ Hostname          |-> peer.Hostname,
      Owner             |-> peer.Owner,
      Description       |-> peer.Description,
      Added             |-> peer.Added,
      IP                |-> peer.IP,
      ExternalIP        |-> externalIP(wgPeer),
      Status            |-> status,
      Networks          |-> peer.Networks,
      LastHandshakeTime |-> wgPeer.LastHandshakeTime,
      ReceiveBytes      |-> wgPeer.TransmitBytes,
      TransmitBytes     |-> wgPeer.ReceiveBytes,
      ReceiveBytesSI    |-> BytesToSI(wgPeer.TransmitBytes),
      TransmitBytesSI   |-> BytesToSI(wgPeer.ReceiveBytes) ]

\* PeerReportOf carrying the last known external IP over from the old
\* report when the peer has no endpoint now
PeerReportOfCarried(peer, wgPeer, status, oldIdx) ==
    [ Hostname          |-> peer.Hostname,
      Owner             |-> peer.Owner,
      Description       |-> peer.Description,
      Added             |-> peer.Added,
      IP                |-> peer.IP,
      ExternalIP        |-> IF /\ wgPeer.Endpoint.nil
                               /\ peer.Hostname \in DOMAIN oldIdx
                            THEN oldIdx[peer.Hostname].ExternalIP
                            ELSE externalIP(wgPeer),
      Status            |-> status,
      Networks          |-> peer.Networks,
      LastHandshakeTime |-> wgPeer.LastHandshakeTime,
      ReceiveBytes      |-> wgPeer.ReceiveBytes,
      TransmitBytes     |-> wgPeer.TransmitBytes,
      ReceiveBytesSI    |-> BytesToSI(wgPeer.ReceiveBytes),
      TransmitBytesSI   |-> BytesToSI(wgPeer.TransmitBytes) ]

\* peerReports[i] = PeerReport{...}
PeerReportOf(peer, wgPeer, status, oldIdx) ==
    [ Hostname          |-> peer.Hostname,
      Owner             |-> peer.Owner,
      Description       |-> peer.Description,
      Added             |-> peer.Added,
      IP                |-> peer.IP,
      ExternalIP        |-> externalIP(wgPeer),
      Status            |-> status,
      Networks          |-> peer.Networks,
      LastHandshakeTime |-> wgPeer.LastHandshakeTime,
      ReceiveBytes      |-> wgPeer.ReceiveBytes,
      TransmitBytes     |-> wgPeer.TransmitBytes,
      ReceiveBytesSI    |-> BytesToSI(wgPeer.ReceiveBytes),
      TransmitBytesSI   |-> BytesToSI(wgPeer.TransmitBytes) ]

\* wgPeer, known := wgPeerIndex[peer.PublicKey.Key]
Lookup(idx, key) ==
    IF key \in DOMAIN idx
    THEN [wgPeer |-> idx[key], known |-> TRUE]
    ELSE [wgPeer |-> ZeroPeer, known |-> FALSE]

\* for i, peer := range conf.Peers { ... }, acc = (peerReports, peersOnline)
RECURSIVE PeerLoop(_, _, _, _, _, _)
PeerLoop(peers, i, idx, oldIdx, n, acc) ==
    IF i > Len(peers) THEN acc
    ELSE LET l == Lookup(idx, peers[i].PublicKey)
             c == Classify(l.known, l.wgPeer, n)
         IN  PeerLoop(peers, i + 1, idx, oldIdx, n,
                [ peerReports |->
                      [acc.peerReports EXCEPT ![i] =
                          PeerReportOf(peers[i], l.wgPeer, c.status, oldIdx)],
                  peersOnline |-> acc.peersOnline + c.online ])

\* make([]PeerReport, len(conf.Peers)): zero-valued entries
ZeroPeerReport ==
    [ Hostname |-> "", Owner |-> "", Description |-> "", Added |-> ZeroTime,
      IP |-> NilIP, ExternalIP |-> NilIP, Status |-> StatusUnknown,
      Networks |-> << >>, LastHandshakeTime |-> ZeroTime,
      ReceiveBytes |-> 0, TransmitBytes |-> 0,
      ReceiveBytesSI |-> "", TransmitBytesSI |-> "" ]

\* GenerateReport ranging over the device's peers instead of conf.Peers
GenerateReportOverDevice(d, c, old, n) ==
    LET ps == [i \in 1..Len(d.Peers) |->
                  IF \E j \in 1..Len(c.Peers) :
                        c.Peers[j].PublicKey = d.Peers[i].PublicKey
                  THEN c.Peers[CHOOSE j \in 1..Len(c.Peers) :
                          c.Peers[j].PublicKey = d.Peers[i].PublicKey]
                  ELSE [ZeroPeerReport EXCEPT !.Hostname = d.Peers[i].PublicKey]
                       @@ [PublicKey |-> d.Peers[i].PublicKey]]
        r == PeerLoop(ps, 1, wgPeerIndex(d), oldPeerReportIndex(old), n,
                 [ peerReports |-> [i \in 1..Len(ps) |-> ZeroPeerReport],
                   peersOnline |-> 0 ])
    IN  [ nil           |-> FALSE,
          ExternalIP    |-> c.ExternalIP,
          InterfaceName |-> c.InterfaceName,
          ListenPort    |-> c.ListenPort,
          Domain        |-> c.Domain,
          IP            |-> c.IP,
          Network       |-> c.Network,
          DNS           |-> c.DNS,
          Peers         |-> r.peerReports,
          PeersOnline   |-> r.peersOnline,
          PeersTotal    |-> Len(r.peerReports) ]

GenerateReport(d, c, old, n) ==
    LET r == PeerLoop(c.Peers, 1, wgPeerIndex(d), oldPeerReportIndex(old), n,
                 [ peerReports |-> [i \in 1..Len(c.Peers) |-> ZeroPeerReport],
                   peersOnline |-> 0 ])
    IN  [ nil           |-> FALSE,
          ExternalIP    |-> c.ExternalIP,
          InterfaceName |-> c.InterfaceName,
          ListenPort    |-> c.ListenPort,
          Domain        |-> c.Domain,
          IP            |-> c.IP,
          Network       |-> c.Network,
          DNS           |-> c.DNS,
          Peers         |-> r.peerReports,
          PeersOnline   |-> r.peersOnline,
          PeersTotal    |-> Len(r.peerReports) ]

\* previous reports a caller may hand in
OldReports ==
    { NoReport,
      GenerateReport([Peers |-> << >>], DsnetConfigOf(<< >>), NoReport, Now0),
      GenerateReport(
          [Peers |-> << [ PublicKey |-> "K1",
                          Endpoint |-> Endpoint("192.0.2.77"),
                          LastHandshakeTime |-> Now0 - 10,
                          ReceiveBytes |-> 7, TransmitBytes |-> 9 ] >>],
          DsnetConfigOf(<< PeerConfig("K1") >>), NoReport, Now0 - 10) }

(***************************************************************************)
(* encoding/json.  A JSON text is a sequence of tokens: the opening brace, *)
(* one token per member of the top-level object, the closing brace.  A     *)
(* file cut short is a proper prefix of such a sequence.                   *)
(***************************************************************************)
JStr(x)  == [t |-> "string", s |-> x]
JNum(x)  == [t |-> "number", n |-> x]
JArr(x)  == [t |-> "array",  a |-> x]
JObj(x)  == [t |-> "object", o |-> x]
JNull    == [t |-> "null"]

Member(name, val) == [name |-> name, val |-> val]
BeginTok == Member("{", JNull)
EndTok   == Member("}", JNull)

\* time.Time marshals to its RFC 3339 text
TimeText(t) == "T" \o ToString(t)

\* net.IP.MarshalText: the empty text for a slice of length 0
MarshalText(ip) ==
    IF ip.form \in {"nil", "empty"} THEN "" ELSE ip.addr

\* Status.MarshalJSON
MarshalJSON(status) == JStr(String(status))

MarshalPeerReport(p) ==
    JObj(<< Member("Hostname", JStr(p.Hostname)),
            Member("Owner", JStr(p.Owner)),
            Member("Description", JStr(p.Description)),
            Member("Added", JStr(TimeText(p.Added))),
            Member("IP", JStr(MarshalText(p.IP))),
            Member("ExternalIP", JStr(MarshalText(p.ExternalIP))),
            Member("Status", MarshalJSON(p.Status)),
            Member("Networks",
                   JArr([i \in 1..Len(p.Networks) |-> JStr(p.Networks[i])])),
            Member("LastHandshakeTime", JStr(TimeText(p.LastHandshakeTime))),
            Member("ReceiveBytes", JNum(p.ReceiveBytes)),
            Member("TransmitBytes", JNum(p.TransmitBytes)),
            Member("ReceiveBytesSI", JStr(p.ReceiveBytesSI)),
            Member("TransmitBytesSI", JStr(p.TransmitBytesSI)) >>)

\* json.MarshalIndent(report, "", "    ")
MarshalIndent(r) ==
    << BeginTok,
       Member("ExternalIP", JStr(MarshalText(r.ExternalIP))),
       Member("InterfaceName", JStr(r.InterfaceName)),
       Member("ListenPort", JNum(r.ListenPort)),
       Member("Domain", JStr(r.Domain)),
       Member("IP", JStr(MarshalText(r.IP))),
       Member("Network", JStr(r.Network)),
       Member("DNS", JStr(MarshalText(r.DNS))),
       Member("PeersOnline", JNum(r.PeersOnline)),
       Member("PeersTotal", JNum(r.PeersTotal)),
       Member("Peers",
              JArr([i \in 1..Len(r.Peers) |-> MarshalPeerReport(r.Peers[i])])),
       EndTok >>

\* the texts net.ParseIP and net.ParseCIDR accept, the times time.Parse reads
Addrs == { "198.51.100.1", "10.0.0.1", "10.0.0.2", "10.0.0.3",
           "203.0.113.9", "192.0.2.77" }
Cidrs == { "10.0.0.0/22", "192.168.7.0/24" }
KnownTimes ==
    HandshakeTimes \cup { PeerConfig(k).Added : k \in ConfKeys }
                   \cup { Now0 - 10 }

Ok(v)   == [ok |-> TRUE, val |-> v]
Bad(v)  == [ok |-> FALSE, val |-> v]

\* the value the decoder leaves in a field of each kind when the member is
\* absent or null: the zero value of report := DsnetReport{}
Zero(kind) ==
    CASE kind = "string" -> ""
      [] kind = "int"    -> 0
      [] kind = "status" -> StatusUnknown
      [] kind = "ip"     -> NilIP
      [] kind = "cidr"   -> ""
      [] kind = "time"   -> ZeroTime
      [] OTHER           -> << >>

\* decoding one JSON value into a Go field of the given kind
Decode(kind, v) ==
    IF v.t = "null" THEN Ok(Zero(kind))
    ELSE CASE kind = "string" ->
                IF v.t = "string" THEN Ok(v.s) ELSE Bad("")
           [] kind = "int" ->
                IF v.t = "number" THEN Ok(v.n) ELSE Bad(0)
           \* Status is an int with no UnmarshalJSON: only a number decodes
           [] kind = "status" ->
                IF v.t = "number" THEN Ok(v.n) ELSE Bad(StatusUnknown)
           \* net.IP.UnmarshalText: empty text gives nil, else net.ParseIP
           [] kind = "ip" ->
                IF v.t # "string" THEN Bad(NilIP)
                ELSE IF v.s = "" THEN Ok(NilIP)
                ELSE IF v.s \in Addrs THEN Ok(IPv16(v.s))
                ELSE Bad(NilIP)
           [] kind = "cidr" ->
                IF v.t = "string" /\ v.s \in Cidrs THEN Ok(v.s) ELSE Bad("")
           [] kind = "time" ->
                IF v.t # "string" THEN Bad(ZeroTime)
                ELSE LET m == { x \in KnownTimes : TimeText(x) = v.s }
                     IN  IF m = {} THEN Bad(ZeroTime)
                         ELSE Ok(CHOOSE x \in m : TRUE)

\* decoding a JSON array into a []JSONIPNet
DecodeNetworks(v) ==
    IF v.t = "null" THEN Ok(<< >>)
    ELSE IF v.t # "array" THEN Bad(<< >>)
    ELSE [ ok  |-> \A i \in 1..Len(v.a) : Decode("cidr", v.a[i]).ok,
           val |-> [i \in 1..Len(v.a) |-> Decode("cidr", v.a[i]).val] ]

\* the value of the last member called name, null when there is none
Get(members, name) ==
    LET at == { i \in 1..Len(members) : members[i].name = name }
    IN  IF at = {} THEN JNull
        ELSE members[CHOOSE i \in at : \A j \in at : j <= i].val

PeerReportKinds ==
    [ Hostname |-> "string", Owner |-> "string", Description |-> "string",
      Added |-> "time", IP |-> "ip", ExternalIP |-> "ip",
      Status |-> "status", Networks |-> "cidrs",
      LastHandshakeTime |-> "time", ReceiveBytes |-> "int",
      TransmitBytes |-> "int", ReceiveBytesSI |-> "string",
      TransmitBytesSI |-> "string" ]

DsnetReportKinds ==
    [ ExternalIP |-> "ip", InterfaceName |-> "string", ListenPort |-> "int",
      Domain |-> "string", IP |-> "ip", Network |-> "cidr", DNS |-> "ip",
      PeersOnline |-> "int", PeersTotal |-> "int" ]

DecodePeerReport(v) ==
    IF v.t # "object" THEN Bad(ZeroPeerReport)
    ELSE LET d == [f \in DOMAIN PeerReportKinds |->
                      IF f = "Networks" THEN DecodeNetworks(Get(v.o, f))
                      ELSE Decode(PeerReportKinds[f], Get(v.o, f))]
         IN  [ ok  |-> \A f \in DOMAIN PeerReportKinds : d[f].ok,
               val |-> [f \in DOMAIN PeerReportKinds |-> d[f].val] ]

DecodePeers(v) ==
    IF v.t = "null" THEN Ok(<< >>)
    ELSE IF v.t # "array" THEN Bad(<< >>)
    ELSE [ ok  |-> \A i \in 1..Len(v.a) : DecodePeerReport(v.a[i]).ok,
           val |-> [i \in 1..Len(v.a) |-> DecodePeerReport(v.a[i]).val] ]

\* a complete JSON text: braces around member tokens
WellFormed(raw) ==
    /\ Len(raw) >= 2
    /\ raw[1] = BeginTok
    /\ raw[Len(raw)] = EndTok
    /\ \A i \in 2..(Len(raw) - 1) : raw[i] \notin {BeginTok, EndTok}

\* json.Unmarshal(raw, &report): err and the report decoded
Unmarshal(raw) ==
    IF ~WellFormed(raw) THEN [err |-> "syntax", report |-> NoReport]
    ELSE LET ms == SubSeq(raw, 2, Len(raw) - 1)
             d  == [f \in DOMAIN DsnetReportKinds |->
                       Decode(DsnetReportKinds[f], Get(ms, f))]
             ps == DecodePeers(Get(ms, "Peers"))
         IN  [ err    |-> IF /\ \A f \in DOMAIN DsnetReportKinds : d[f].ok
                             /\ ps.ok
                          THEN "nil" ELSE "type",
               report |-> [ nil           |-> FALSE,
                            ExternalIP    |-> d.ExternalIP.val,
                            InterfaceName |-> d.InterfaceName.val,
                            ListenPort    |-> d.ListenPort.val,
                            Domain        |-> d.Domain.val,
                            IP            |-> d.IP.val,
                            Network       |-> d.Network.val,
                            DNS           |-> d.DNS.val,
                            Peers         |-> ps.val,
                            PeersOnline   |-> d.PeersOnline.val,
                            PeersTotal    |-> d.PeersTotal.val ] ]

\* validator.New().Struct(report): the fields of DsnetReport and PeerReport
\* that carry a `validate' tag; none does
ValidateTags == {}

Struct(r) ==
    IF \A f \in ValidateTags : r[f] # Zero(DsnetReportKinds[f])
    THEN "nil" ELSE "validation"

(***************************************************************************)
(* The file system and the results of the store's calls.                   *)
(***************************************************************************)
CONFIG_FILE == "CONFIG_FILE"
REPORT_FILE == "REPORT_FILE"
Paths   == {CONFIG_FILE, REPORT_FILE}
Modes   == {"ok", "noperm", "ioerr"}
NoFile  == [exists |-> FALSE, mode |-> "ok", content |-> << >>]
NoSave  == [active |-> FALSE]
NoLoad  == [outcome |-> "none", stage |-> "none", report |-> NoReport,
            fresh |-> FALSE]
NoObs   == [seen |-> FALSE]
NoSaved == [at |-> [p \in Paths |-> NoReport], just |-> "none"]

\* a result is fresh until the next step of anyone
Stale(l) == [l EXCEPT !.fresh = FALSE]
\* saved.just names the path of a MustSave that has only just returned
Settled(sv) == [sv EXCEPT !.just = "none"]
\* someone else touched path p: what MustSave left there is gone
Touched(sv, p) == [at |-> [sv.at EXCEPT ![p] = NoReport], just |-> "none"]

StoreInit ==
    /\ fs = [p \in Paths |-> NoFile]
    /\ proc = "idle"
    /\ save = NoSave
    /\ saved = NoSaved
    /\ loaded = NoLoad
    /\ observed = NoObs

\* ioutil.ReadFile(p): the error class and the bytes read
ReadFile(p) ==
    IF ~fs[p].exists THEN [err |-> "notexist", raw |-> << >>]
    ELSE IF fs[p].mode = "noperm" THEN [err |-> "permission", raw |-> << >>]
    ELSE IF fs[p].mode = "ioerr" THEN [err |-> "other", raw |-> << >>]
    ELSE [err |-> "nil", raw |-> fs[p].content]

IsNotExist(err)   == err = "notexist"
IsPermission(err) == err = "permission"

\* check(err) ends the process when err is not nil
check(err) == err # "nil"

Fatal(stage) ==
    [outcome |-> "fatal", stage |-> stage, report |-> NoReport, fresh |-> TRUE]

\* LoadResult treating a permission error like a missing file
LoadResultLenient(rd) ==
    IF IsNotExist(rd.err) \/ IsPermission(rd.err)
    THEN [outcome |-> "nil", stage |-> "read", report |-> NoReport,
          fresh |-> TRUE]
    ELSE IF check(rd.err) THEN Fatal("read")
    ELSE LET u == Unmarshal(rd.raw) IN
         IF check(u.err) THEN Fatal("parse")
         ELSE IF check(Struct(u.report)) THEN Fatal("validate")
         ELSE [outcome |-> "report", stage |-> "return", report |-> u.report,
               fresh |-> TRUE]

\* the body of MustLoadDsnetReport, given what ReadFile returned
LoadResult(rd) ==
    IF IsNotExist(rd.err)
    THEN [outcome |-> "nil", stage |-> "read", report |-> NoReport,
          fresh |-> TRUE]
    ELSE IF IsPermission(rd.err) THEN Fatal("read")     \* ExitFail
    ELSE IF check(rd.err) THEN Fatal("read")
    ELSE LET u == Unmarshal(rd.raw) IN
         IF check(u.err) THEN Fatal("parse")
         ELSE IF check(Struct(u.report)) THEN Fatal("validate")
         ELSE [outcome |-> "report", stage |-> "return", report |-> u.report,
               fresh |-> TRUE]

(***************************************************************************)
(* The report generator as a state machine.                                *)
(***************************************************************************)
Init ==
    /\ conf \in Configs
    /\ dev \in Devices
    /\ oldReport \in OldReports
    /\ now = Now0
    /\ report = NoReport
    /\ genTime = NoTime
    /\ StoreInit

\* report := GenerateReport(dev, conf, oldReport)
DoGenerateReport ==
    /\ proc = "idle"
    /\ report' = GenerateReport(dev, conf, oldReport, now)
    /\ genTime' = now
    /\ loaded' = Stale(loaded)
    /\ observed' = NoObs
    /\ saved' = Settled(saved)
    /\ UNCHANGED <<conf, dev, oldReport, now, fs, proc, save>>

\* a minute passes
Tick ==
    /\ now < Now0 + MaxTicks
    /\ now' = now + 1
    /\ UNCHANGED <<conf, dev, oldReport, report, genTime>>
    /\ UNCHANGED storeVars

Next == DoGenerateReport \/ Tick

Spec == Init /\ [][Next]_vars

(***************************************************************************)
(* The report store as a state machine: one dsnet process that generates,  *)
(* saves and loads, a concurrent reader, and the rest of the system        *)
(* acting on the files.                                                    *)
(***************************************************************************)
MaxChunks == 2      \* write calls the kernel may need for one file

StoreDevice ==
    [Peers |-> << [ PublicKey         |-> "K1",
                    Endpoint          |-> Endpoint("203.0.113.9"),
                    LastHandshakeTime |-> Now0,
                    ReceiveBytes      |-> 2048,
                    TransmitBytes     |-> 1500 ] >>]

StoreConfigs ==
    { DsnetConfigOf(<< >>),
      DsnetConfigOf(<< PeerConfig("K1"), PeerConfig("K2") >>) }

\* files that MustSave did not write
ForeignTexts ==
    { << BeginTok, EndTok >>,
      << BeginTok, Member("ExternalIP", JStr("300.1.1.1")),
         Member("ListenPort", JNum(51820)), EndTok >>,
      << BeginTok, Member("ExternalIP", JStr("198.51.100.1")),
         Member("Peers", JArr(<< JObj(<< Member("Hostname", JStr("alpha")),
                                        Member("Status", JNum(2)) >>) >>)),
         EndTok >>,
      << BeginTok, Member("ExternalIP", JStr("198.51.100.1")) >> }

StoreInit2 ==
    /\ conf \in StoreConfigs
    /\ dev = StoreDevice
    /\ oldReport = NoReport
    /\ now = Now0
    /\ report = NoReport
    /\ genTime = NoTime
    /\ StoreInit

\* os.OpenFile(p, O_WRONLY|O_CREATE|O_TRUNC, 0644): the error class
OpenFile(p) ==
    IF ~fs[p].exists THEN "nil"
    ELSE IF fs[p].mode = "noperm" THEN "permission"
    ELSE IF fs[p].mode = "ioerr" THEN "other"
    ELSE "nil"

\* report.MustSave(p), up to the open of ioutil.WriteFile:
\* O_WRONLY|O_CREATE|O_TRUNC
MustSaveOpen(p) ==
    /\ proc = "idle"
    /\ ~report.nil
    /\ IF check(OpenFile(p))
       THEN /\ proc' = "fatal"
            /\ saved' = Settled(saved)
            /\ UNCHANGED <<fs, save>>
       ELSE /\ fs' = [fs EXCEPT ![p] =
                        [exists |-> TRUE, mode |-> "ok", content |-> << >>]]
            /\ save' = [ active |-> TRUE, path |-> p, report |-> report,
                         text |-> MarshalIndent(report),
                         rest |-> MarshalIndent(report),
                         prev |-> fs[p], chunks |-> 0 ]
            /\ saved' = Touched(saved, p)
            /\ proc' = "saving"
    /\ loaded' = Stale(loaded)
    /\ observed' = NoObs
    /\ UNCHANGED genVars

\* the sizes one write call may take of n bytes left
ChunkSizes(n, chunks) ==
    {n} \cup (IF n > 1 /\ chunks + 1 < MaxChunks THEN {n \div 2} ELSE {})

\* f.Write(data): the kernel takes the next chunk
MustSaveWrite ==
    /\ proc = "saving"
    /\ save.rest # << >>
    /\ \E n \in ChunkSizes(Len(save.rest), save.chunks) :
          /\ fs' = [fs EXCEPT ![save.path].content =
                        @ \o SubSeq(save.rest, 1, n)]
          /\ save' = [save EXCEPT
                        !.rest = SubSeq(save.rest, n + 1, Len(save.rest)),
                        !.chunks = @ + 1]
    /\ loaded' = Stale(loaded)
    /\ observed' = NoObs
    /\ UNCHANGED <<proc, saved>>
    /\ UNCHANGED genVars

\* f.Close(), check(nil), return
MustSaveClose ==
    /\ proc = "saving"
    /\ save.rest = << >>
    /\ proc' = "idle"
    /\ saved' = [at |-> [saved.at EXCEPT ![save.path] = save.report],
                 just |-> save.path]
    /\ save' = NoSave
    /\ loaded' = Stale(loaded)
    /\ observed' = NoObs
    /\ UNCHANGED fs
    /\ UNCHANGED genVars

\* loaded := MustLoadDsnetReport()
MustLoadDsnetReport ==
    /\ proc = "idle"
    /\ loaded' = LoadResult(ReadFile(CONFIG_FILE))
    /\ proc' = IF loaded'.outcome = "fatal" THEN "fatal" ELSE proc
    /\ observed' = NoObs
    /\ UNCHANGED <<fs, save, saved>>
    /\ UNCHANGED genVars

\* another process reads the file at p
Read(p) ==
    /\ fs[p].exists
    /\ fs[p].mode = "ok"
    /\ observed' = [seen |-> TRUE, path |-> p, content |-> fs[p].content]
    /\ loaded' = Stale(loaded)
    /\ UNCHANGED <<fs, proc, save, saved>>
    /\ UNCHANGED genVars

Saving(p) == save.active /\ save.path = p

\* the rest of the system writes the configuration file
PutFile(c) ==
    /\ ~Saving(CONFIG_FILE)
    /\ fs' = [fs EXCEPT ![CONFIG_FILE] =
                [exists |-> TRUE, mode |-> "ok", content |-> c]]
    /\ saved' = Touched(saved, CONFIG_FILE)
    /\ loaded' = Stale(loaded)
    /\ observed' = NoObs
    /\ UNCHANGED <<proc, save>>
    /\ UNCHANGED genVars

Remove(p) ==
    /\ ~Saving(p)
    /\ fs[p].exists
    /\ fs' = [fs EXCEPT ![p] = NoFile]
    /\ saved' = Touched(saved, p)
    /\ loaded' = Stale(loaded)
    /\ observed' = NoObs
    /\ UNCHANGED <<proc, save>>
    /\ UNCHANGED genVars

\* the file at p becomes unreadable (permissions, or an I/O error), or
\* readable again
Chmod(p, m) ==
    /\ ~Saving(p)
    /\ fs[p].exists
    /\ fs[p].mode # m
    /\ fs' = [fs EXCEPT ![p].mode = m]
    /\ saved' = Touched(saved, p)
    /\ loaded' = Stale(loaded)
    /\ observed' = NoObs
    /\ UNCHANGED <<proc, save>>
    /\ UNCHANGED genVars

\* dsnet is started again after a fatal exit
Restart ==
    /\ proc = "fatal"
    /\ proc' = "idle"
    /\ report' = NoReport
    /\ genTime' = NoTime
    /\ loaded' = NoLoad
    /\ observed' = NoObs
    /\ saved' = Settled(saved)
    /\ UNCHANGED <<conf, dev, oldReport, now, fs, save>>

StoreNext ==
    \/ DoGenerateReport
    \/ \E p \in Paths : MustSaveOpen(p)
    \/ MustSaveWrite
    \/ MustSaveClose
    \/ MustLoadDsnetReport
    \/ \E p \in Paths : Read(p)
    \/ \E c \in ForeignTexts : PutFile(c)
    \/ \E p \in Paths : Remove(p)
    \/ \E p \in Paths, m \in Modes : Chmod(p, m)
    \/ Restart

StoreSpec == StoreInit2 /\ [][StoreNext]_vars

(***************************************************************************)
(* Properties of GenerateReport.  `report' was computed from conf, dev and *)
(* oldReport when the clock read genTime.                                  *)
(***************************************************************************)
Generated == ~report.nil

\* the snapshot entries carrying public key k
Entries(k) == { j \in 1..Len(dev.Peers) : dev.Peers[j].PublicKey = k }
InSnapshot(k) == Entries(k) # {}
EntryOf(k) == dev.Peers[CHOOSE j \in Entries(k) : TRUE]

\* C1: the report lists exactly the configured peers, in configuration
\* order, each once, and no peer that is only in the snapshot.
C1_PeersFollowConfig ==
    Generated =>
        /\ Len(report.Peers) = Len(conf.Peers)
        /\ \A i \in 1..Len(conf.Peers) :
              /\ report.Peers[i].Hostname = conf.Peers[i].Hostname
              /\ report.Peers[i].Owner = conf.Peers[i].Owner
              /\ report.Peers[i].IP = conf.Peers[i].IP
        /\ \A i \in 1..Len(conf.Peers) :
              Cardinality({ j \in 1..Len(report.Peers) :
                  report.Peers[j].Hostname = conf.Peers[i].Hostname }) = 1
        /\ \A j \in 1..Len(report.Peers) :
              \E i \in 1..Len(conf.Peers) :
                  report.Peers[j].Hostname = conf.Peers[i].Hostname

\* a report of two configured peers, one of them missing from a snapshot
\* that also holds the unconfigured KX
C1_Witness ==
    /\ Generated
    /\ Len(conf.Peers) = 2
    /\ InSnapshot("KX")
    /\ \E i \in 1..2 : ~InSnapshot(conf.Peers[i].PublicKey)
    /\ \E i \in 1..2 : InSnapshot(conf.Peers[i].PublicKey)

\* C2: PeersTotal is the length of Peers and PeersOnline the number of
\* entries whose Status is Online.
C2_Counts ==
    Generated =>
        /\ report.PeersTotal = Len(report.Peers)
        /\ report.PeersOnline =
              Cardinality({ i \in 1..Len(report.Peers) :
                  report.Peers[i].Status = StatusOnline })

C2_Witness ==
    /\ Generated
    /\ report.PeersTotal = 2
    /\ report.PeersOnline = 1
    /\ \E i \in 1..2 : report.Peers[i].Status = StatusOffline

\* the status the four rules give a configured peer, first match wins; the
\* age is the plain difference of the two instants
RuleStatus(k) ==
    IF ~InSnapshot(k) THEN StatusUnknown
    ELSE LET h == EntryOf(k).LastHandshakeTime
         IN  IF genTime - h < TIMEOUT THEN StatusOnline
             ELSE IF h # ZeroTime /\ genTime - h > EXPIRY THEN StatusDormant
             ELSE StatusOffline

\* C3: every configured peer's Status is the one the four rules give, and
\* an age of exactly the online window or exactly the expiry window is
\* Offline.
C3_StatusRules ==
    Generated =>
        \A i \in 1..Len(conf.Peers) :
            LET k == conf.Peers[i].PublicKey IN
            /\ report.Peers[i].Status = RuleStatus(k)
            /\ ( /\ InSnapshot(k)
                 /\ genTime - EntryOf(k).LastHandshakeTime \in {TIMEOUT, EXPIRY} )
               => report.Peers[i].Status = StatusOffline

\* one peer at an age of exactly the expiry window, the other dormant
C3_Witness ==
    /\ Generated
    /\ Len(conf.Peers) = 2
    /\ \E i \in 1..2 :
          /\ InSnapshot(conf.Peers[i].PublicKey)
          /\ genTime - EntryOf(conf.Peers[i].PublicKey).LastHandshakeTime = EXPIRY
          /\ report.Peers[i].Status = StatusOffline
    /\ \E i \in 1..2 : report.Peers[i].Status = StatusDormant

\* configured peers that the snapshot holds with a zero handshake time
NeverShaken ==
    { i \in 1..Len(conf.Peers) :
        /\ InSnapshot(conf.Peers[i].PublicKey)
        /\ EntryOf(conf.Peers[i].PublicKey).LastHandshakeTime = ZeroTime }

\* C4: a peer in the snapshot with a zero handshake time is Offline and
\* is not counted in PeersOnline.
C4_ZeroHandshakeOffline ==
    Generated =>
        /\ \A i \in NeverShaken : report.Peers[i].Status = StatusOffline
        /\ report.PeersOnline <= Len(conf.Peers) - Cardinality(NeverShaken)

C4_Witness ==
    /\ Generated
    /\ Len(conf.Peers) = 2
    /\ Cardinality(NeverShaken) = 1
    /\ report.PeersOnline = 1

\* C9: a peer missing from the snapshot reports zero telemetry and the
\* empty external IP; a peer in it reports its entry's handshake time and
\* counters, and the endpoint's IP when there is an endpoint.
C9_Telemetry ==
    Generated =>
        \A i \in 1..Len(conf.Peers) :
            LET k == conf.Peers[i].PublicKey
                r == report.Peers[i]
            IN  IF ~InSnapshot(k)
                THEN /\ r.LastHandshakeTime = ZeroTime
                     /\ r.ReceiveBytes = 0
                     /\ r.TransmitBytes = 0
                     /\ r.ExternalIP.form \in {"nil", "empty"}
                ELSE /\ r.LastHandshakeTime = EntryOf(k).LastHandshakeTime
                     /\ r.ReceiveBytes = EntryOf(k).ReceiveBytes
                     /\ r.TransmitBytes = EntryOf(k).TransmitBytes
                     /\ IF EntryOf(k).Endpoint.nil
                        THEN r.ExternalIP.form \in {"nil", "empty"}
                        ELSE r.ExternalIP = EntryOf(k).Endpoint.IP

\* two snapshot entries with different telemetry, one with an endpoint
C9_Witness ==
    /\ Generated
    /\ Len(conf.Peers) = 2
    /\ \A i \in 1..2 : InSnapshot(conf.Peers[i].PublicKey)
    /\ report.Peers[1].ExternalIP.form = "v4"
    /\ report.Peers[2].ExternalIP.form = "empty"
    /\ report.Peers[1].ReceiveBytes # report.Peers[2].ReceiveBytes
    /\ report.Peers[1].ReceiveBytes # report.Peers[1].TransmitBytes

\* C10: a call of GenerateReport returns what it returns for any other
\* previous report, and leaves configuration, snapshot and previous report
\* as they were.
C10_OldReportIgnored ==
    [][ (report' # report \/ genTime' # genTime) =>
            /\ \A old \in OldReports :
                  report' = GenerateReport(dev, conf, old, now)
            /\ UNCHANGED <<conf, dev, oldReport>> ]_vars

\* a report for alpha, absent from the snapshot, made while the previous
\* report knows an external IP for alpha
C10_Witness ==
    /\ Generated
    /\ ~oldReport.nil
    /\ Len(oldReport.Peers) = 1
    /\ Len(report.Peers) >= 1
    /\ report.Peers[1].Hostname = oldReport.Peers[1].Hostname
    /\ report.Peers[1].ExternalIP # oldReport.Peers[1].ExternalIP

(***************************************************************************)
(* Properties of the report store.  While loaded.fresh holds nothing has   *)
(* happened since MustLoadDsnetReport returned, so fs is the file system   *)
(* it read.                                                                *)
(***************************************************************************)
\* net.IP.Equal: nil and empty are the same address, so are the 4-byte and
\* the 16-byte form of one address
NormIP(ip) ==
    IF ip.form \in {"nil", "empty"} THEN NilIP ELSE IPv16(ip.addr)

NormPeer(q) ==
    [q EXCEPT !.IP = NormIP(@), !.ExternalIP = NormIP(@)]

NormReport(r) ==
    [r EXCEPT !.ExternalIP = NormIP(@), !.IP = NormIP(@), !.DNS = NormIP(@),
              !.Peers = [i \in 1..Len(@) |-> NormPeer(@[i])]]

SameReport(a, b) ==
    /\ ~a.nil
    /\ ~b.nil
    /\ NormReport(a) = NormReport(b)

\* C5: a report saved to the path MustLoadDsnetReport reads and loaded back
\* right after MustSave returned is equal to the one saved; the load
\* neither aborts nor returns nil.
C5_RoundTrip ==
    (loaded.fresh /\ saved.just = CONFIG_FILE) =>
        /\ loaded.outcome = "report"
        /\ SameReport(loaded.report, saved.at[saved.just])

\* members of the text that name a field of DsnetReport
ReportMembers(raw) ==
    { i \in 1..Len(raw) :
        raw[i].name \in DOMAIN DsnetReportKinds \cup {"Peers"} }

\* a complete JSON object that sets no field of the report at all
LacksFields(raw) == WellFormed(raw) /\ ReportMembers(raw) = {}

\* some IP field of the text holds a string that is no IP address
MalformedIP(raw) ==
    \E i \in ReportMembers(raw) :
        /\ raw[i].name \in {"ExternalIP", "IP", "DNS"}
        /\ raw[i].val.t = "string"
        /\ raw[i].val.s \notin Addrs \cup {""}

ReadSucceeds == fs[CONFIG_FILE].exists /\ fs[CONFIG_FILE].mode = "ok"

\* C6: when the file was read, a text that lacks the required fields or
\* holds a malformed IP address makes the load fatal.
C6_ValidationFatal ==
    ( /\ loaded.fresh
      /\ ReadSucceeds
      /\ \/ LacksFields(fs[CONFIG_FILE].content)
         \/ MalformedIP(fs[CONFIG_FILE].content) )
    => loaded.outcome = "fatal"

\* C7: a missing file gives nil and no fatal exit; a permission error or
\* any other read error is fatal; the load goes on to parse exactly when
\* the read succeeded.
C7_ReadOutcomes ==
    loaded.fresh =>
        /\ ~fs[CONFIG_FILE].exists =>
              /\ loaded.outcome = "nil"
              /\ loaded.stage = "read"
              /\ proc = "idle"
        /\ (fs[CONFIG_FILE].exists /\ fs[CONFIG_FILE].mode # "ok") =>
              /\ loaded.outcome = "fatal"
              /\ loaded.stage = "read"
              /\ loaded.report.nil
              /\ proc = "fatal"
        /\ loaded.stage \in {"parse", "validate", "return"} <=> ReadSucceeds

\* a load that met a permission error
C7_Witness ==
    /\ loaded.fresh
    /\ fs[CONFIG_FILE].exists
    /\ fs[CONFIG_FILE].mode = "noperm"
    /\ proc = "fatal"

\* C8: a reader of a path being saved sees the complete previous or the
\* complete new contents, and a path holds the last report saved there.
C8_AtomicReplace ==
    /\ (observed.seen /\ Saving(observed.path)) =>
          \/ observed.content = save.text
          \/ save.prev.exists /\ observed.content = save.prev.content
    /\ \A p \in Paths :
          ~saved.at[p].nil =>
              /\ fs[p].exists
              /\ fs[p].content = MarshalIndent(saved.at[p])

====
